---------------------------- MODULE Spec2Model ----------------------------
(***************************************************************************)
(* A model of the headline pipeline of vivainsights (create_chirps.py) and *)
(* of Chatterjee's rank correlation (create_chatterjee_coeff.py).          *)
(*                                                                         *)
(* Numbers are exact rationals [nan, num, den] (den > 0, lowest terms);    *)
(* NaN is a value of its own and every comparison with it is false, as in  *)
(* IEEE arithmetic.  A data frame is the set of its rows; a list of data   *)
(* frames is a sequence of such sets.                                      *)
(***************************************************************************)
EXTENDS Integers, Sequences, FiniteSets

VARIABLES
    data,           \* the person query: a set of rows
    metrics,        \* the requested metrics (a list)
    hrvar,          \* the requested grouping attributes (a list)
    min_group,      \* the minimum group size
    pc,             \* where the call stands
    list_ts,        \* test_ts's result
    list_person,    \* test_ts_person's result
    list_int_bm,    \* test_int_bm's result
    list_bp,        \* test_best_practice's result
    combined_list,  \* what create_chirps returns
    X, Y, ties,     \* xicor's arguments
    xpc,            \* where the call of xicor stands
    ordered_Y,      \* Y in the order of X
    r,              \* the ranks of ordered_Y
    xi,             \* what xicor returned
    xlog,           \* the numpy and scipy calls this call of xicor has made
    call,           \* 1: the call on X; 2: the call on the transformed X
    xi_first        \* what the first call returned

cvars == <<data, metrics, hrvar, min_group, pc, list_ts, list_person,
           list_int_bm, list_bp, combined_list>>

xvars == <<X, Y, ties, xpc, ordered_Y, r, xi, xlog, call, xi_first>>

vars == <<cvars, xvars>>

(***************************************************************************)
(* Exact arithmetic                                                        *)
(***************************************************************************)
Abs(x) == IF x < 0 THEN -x ELSE x

RECURSIVE GCD(_, _)
GCD(a, b) == IF b = 0 THEN a ELSE GCD(b, a % b)

NaN == [nan |-> TRUE, num |-> 0, den |-> 1]

Frac(n, d) ==
    LET g == GCD(Abs(n), d)
    IN  [nan |-> FALSE, num |-> n \div g, den |-> d \div g]

FInt(n) == Frac(n, 1)

\* the operations reduce before they multiply, to keep the integers small
FAdd(a, b) ==
    IF a.nan \/ b.nan THEN NaN
    ELSE LET g == GCD(a.den, b.den)
         IN  Frac(a.num * (b.den \div g) + b.num * (a.den \div g),
                  a.den * (b.den \div g))

FNeg(a) == IF a.nan THEN NaN ELSE [a EXCEPT !.num = -a.num]

FSub(a, b) == FAdd(a, FNeg(b))

FMul(a, b) ==
    IF a.nan \/ b.nan THEN NaN
    ELSE IF a.num = 0 \/ b.num = 0 THEN Frac(0, 1)
    ELSE LET g1 == GCD(Abs(a.num), b.den)
             g2 == GCD(Abs(b.num), a.den)
         IN  Frac((a.num \div g1) * (b.num \div g2),
                  (a.den \div g2) * (b.den \div g1))

FDivInt(a, k) ==
    IF a.nan \/ k = 0 THEN NaN ELSE FMul(a, Frac(1, k))

FLess(a, b) ==
    /\ ~a.nan /\ ~b.nan
    /\ LET g == GCD(a.den, b.den)
       IN  a.num * (b.den \div g) < b.num * (a.den \div g)

FLeq(a, b) ==
    /\ ~a.nan /\ ~b.nan
    /\ LET g == GCD(a.den, b.den)
       IN  a.num * (b.den \div g) <= b.num * (a.den \div g)

FGt(a, b)   == FLess(b, a)
FGeq(a, b)  == FLeq(b, a)

RECURSIVE FSum(_)
FSum(s) == IF s = <<>> THEN FInt(0) ELSE FAdd(Head(s), FSum(Tail(s)))

RECURSIVE FSumSq(_)
FSumSq(s) ==
    IF s = <<>> THEN FInt(0) ELSE FAdd(FMul(Head(s), Head(s)), FSumSq(Tail(s)))

\* mean of a non-empty window
FMean(s) == FDivInt(FSum(s), Len(s))

\* sample variance (ddof = 1); NaN for fewer than two observations
FVar(s) ==
    IF Len(s) < 2 THEN NaN
    ELSE LET k == Len(s)
             t == FSum(s)
         IN  FDivInt(FSub(FMul(FInt(k), FSumSq(s)), FMul(t, t)), k * (k - 1))

\* the elements of a set of integers in ascending order
RECURSIVE SortedSeq(_)
SortedSeq(S) ==
    IF S = {} THEN <<>>
    ELSE LET m == CHOOSE x \in S : \A y \in S : x <= y
         IN  <<m>> \o SortedSeq(S \ {m})

Max(S) == CHOOSE x \in S : \A y \in S : y <= x

(***************************************************************************)
(* The metrics and the exception list                                      *)
(***************************************************************************)
exception_metrics ==
    {"Meeting_hours_with_manager_1_on_1", "Meetings_with_manager_1_on_1",
     "Total_focus_hours"}

\* ranking_order with 'low' and 'high' exchanged
ranking_order_exchanged(metric) ==
    IF metric \in exception_metrics THEN "high" ELSE "low"

ranking_order(metric) == IF metric \in exception_metrics THEN "low" ELSE "high"

short_period == 4
long_period == 12
all_time_period == 52

(***************************************************************************)
(* test_ts: the trend test                                                 *)
(***************************************************************************)
\* Window one observation short: w - 1 observations at most
Window_short(s, k, w) == SubSeq(s, IF k - w + 2 < 1 THEN 1 ELSE k - w + 2, k)

\* rolling(window = w, min_periods = 1) at position k of the series s
Window(s, k, w) == SubSeq(s, IF k - w + 1 < 1 THEN 1 ELSE k - w + 1, k)

RollingMean(s, k, w) == FMean(Window(s, k, w))

RollingVar(s, k, w) == FVar(Window(s, k, w))

\* the sum of a metric over a set of rows
RECURSIVE SumVal(_, _)
SumVal(R, each_metric) ==
    IF R = {} THEN 0
    ELSE LET x == CHOOSE x \in R : TRUE
         IN  x.val[each_metric] + SumVal(R \ {x}, each_metric)

\* groupby([MetricDate, hrvar]).agg(metric: mean, PersonId: nunique)
GroupedData(d, each_hrvar, each_metric) ==
    { LET rows == {rw \in d : rw.MetricDate = c[1] /\ rw.hr[each_hrvar] = c[2]}
      IN  [MetricDate |-> c[1],
           group      |-> c[2],
           value      |-> Frac(SumVal(rows, each_metric), Cardinality(rows)),
           n          |-> Cardinality({rw.PersonId : rw \in rows})]
      : c \in {<<rw.MetricDate, rw.hr[each_hrvar]>> : rw \in d} }

\* the dates of one group, ascending: the order rolling() and shift() follow
GroupDates(gd, g) == SortedSeq({c.MetricDate : c \in {x \in gd : x.group = g}})

CellAt(gd, g, date) == CHOOSE c \in gd : c.group = g /\ c.MetricDate = date

\* the group's series of a column, in date order
GroupSeries(gd, g) ==
    LET ds == GroupDates(gd, g)
    IN  [i \in 1..Len(ds) |-> CellAt(gd, g, ds[i]).value]

\* rank(ascending) within one date, pandas' default method (average of ties)
DateRank(gd, c, ascending) ==
    LET same == {x \in gd : x.MetricDate = c.MetricDate}
        before == IF ascending
                  THEN {x \in same : FLess(x.value, c.value)}
                  ELSE {x \in same : FGt(x.value, c.value)}
        tied == {x \in same : x.value = c.value}
    IN  Frac(2 * Cardinality(before) + Cardinality(tied) + 1, 2)

\* Flipped_ts with the two averages compared by >= and <=, not > and <
Flipped_ts_nonstrict(each_metric, ma4, ma12, last4) ==
    IF each_metric \notin exception_metrics
    THEN FGeq(ma4, ma12) /\ FLeq(last4, ma12)
    ELSE FLeq(ma4, ma12) /\ FGeq(last4, ma12)

\* the 4MA_Flipped_12MA column of test_ts
Flipped_ts(each_metric, ma4, ma12, last4) ==
    IF each_metric \notin exception_metrics
    THEN FGt(ma4, ma12) /\ FLeq(last4, ma12)
    ELSE FLess(ma4, ma12) /\ FGeq(last4, ma12)

\* the filter by minimum group size
KeepGroup_ts(c, mg) == c.n >= mg

\* the columns test_ts adds to grouped_data, and then its filter
TrendRows(gd, each_hrvar, each_metric, mg) ==
    LET order == ranking_order(each_metric) = "high"
        GroupRows(g) ==
            LET ds == GroupDates(gd, g)
                cells == [i \in 1..Len(ds) |-> CellAt(gd, g, ds[i])]
                s  == [i \in 1..Len(ds) |-> cells[i].value]
                rs == [i \in 1..Len(ds) |-> DateRank(gd, cells[i], ~order)]
                Row(k) ==
                    LET ma4  == RollingMean(s, k, short_period)
                        ma12 == RollingMean(s, k, long_period)
                        last4 == IF k = 1 THEN NaN
                                 ELSE RollingMean(s, k - 1, short_period)
                    IN  [attribute |-> each_hrvar,
                         metric_name |-> each_metric,
                         MetricDate |-> ds[k],
                         group |-> g,
                         value |-> s[k],
                         n |-> cells[k].n,
                         MA4 |-> ma4,
                         MA12 |-> ma12,
                         All_Time_Avg |-> RollingMean(s, k, all_time_period),
                         Last_Week_4MA |-> last4,
                         Flipped |-> Flipped_ts(each_metric, ma4, ma12, last4),
                         Stdev_sq |-> RollingVar(s, k, long_period),
                         Rank |-> rs[k],
                         Avg_Rank_4_Week |-> RollingMean(rs, k, short_period),
                         Avg_Rank_12_Week |-> RollingMean(rs, k, long_period)]
            IN  {Row(k) : k \in {i \in 1..Len(ds) : KeepGroup_ts(cells[i], mg)}}
    IN  UNION {GroupRows(g) : g \in {c.group : c \in gd}}

\* TrendFrame with the cells below the minimum group size dropped before the
\* rolling columns and the ranks are computed
TrendFrame_prefiltered(d, each_hrvar, each_metric, mg) ==
    TrendRows({c \in GroupedData(d, each_hrvar, each_metric) : KeepGroup_ts(c, mg)},
              each_hrvar, each_metric, mg)

\* one data frame of test_ts: one (grouping attribute, metric) pair
TrendFrame(d, each_hrvar, each_metric, mg) ==
    TrendRows(GroupedData(d, each_hrvar, each_metric), each_hrvar, each_metric, mg)

\* test_ts: one frame per grouping attribute and metric, attribute-major
test_ts(d, ms, hs, mg) ==
    [i \in 1..(Len(hs) * Len(ms)) |->
        TrendFrame(d, hs[((i - 1) \div Len(ms)) + 1], ms[((i - 1) % Len(ms)) + 1], mg)]

(***************************************************************************)
(* test_ts_person: the trend test at person-week level                     *)
(***************************************************************************)
\* the 4MA_Flipped_12MA column of test_ts_person
Flipped_person(each_metric, ma4, ma12, last4, last12) ==
    IF each_metric \notin exception_metrics
    THEN FGt(ma4, ma12) /\ FLeq(last4, last12)
    ELSE FLess(ma4, ma12) /\ FGeq(last4, last12)

\* one data frame of test_ts_person: one metric, the trailing twelve weeks
PersonFrame(d, each_metric) ==
    LET latest_date == Max({rw.MetricDate : rw \in d})
        twelve_weeks_ago == latest_date - long_period
        pm == {rw \in d : rw.MetricDate >= twelve_weeks_ago /\ rw.MetricDate <= latest_date}
        weekly_avg(date) ==
            LET wk == {x \in pm : x.MetricDate = date}
            IN  Frac(SumVal(wk, each_metric), Cardinality(wk))
        PersonRows(p) ==
            LET mine == {x \in pm : x.PersonId = p}
                ds == SortedSeq({rw.MetricDate : rw \in mine})
                s  == [i \in 1..Len(ds) |->
                         FInt((CHOOSE rw \in mine : rw.MetricDate = ds[i]).val[each_metric])]
                Row(k) ==
                    LET ma4  == RollingMean(s, k, short_period)
                        ma12 == RollingMean(s, k, long_period)
                        last4  == IF k = 1 THEN NaN
                                  ELSE RollingMean(s, k - 1, short_period)
                        last12 == IF k = 1 THEN NaN
                                  ELSE RollingMean(s, k - 1, long_period)
                        avg == weekly_avg(ds[k])
                    IN  [metric_name |-> each_metric,
                         PersonId |-> p,
                         MetricDate |-> ds[k],
                         value |-> s[k],
                         MA4 |-> ma4,
                         MA12 |-> ma12,
                         Stdev_sq |-> RollingVar(s, k, long_period),
                         Last_Week_4MA |-> last4,
                         Last_Week_12MA |-> last12,
                         Flipped |-> Flipped_person(each_metric, ma4, ma12, last4, last12),
                         WeeklyAvg |-> avg,
                         Exceeds_Avg |-> IF each_metric \notin exception_metrics
                                         THEN FGt(s[k], avg)
                                         ELSE FLess(s[k], avg)]
            IN  {Row(k) : k \in 1..Len(ds)}
    IN  UNION {PersonRows(p) : p \in {rw.PersonId : rw \in pm}}

test_ts_person(d, ms) == [i \in 1..Len(ms) |-> PersonFrame(d, ms[i])]

(***************************************************************************)
(* The t-tests                                                             *)
(***************************************************************************)
\* a / b for rationals: 0/0 is NaN, x/0 an infinity
FDiv(a, b) ==
    IF a.nan \/ b.nan THEN NaN
    ELSE IF b.num = 0
         THEN (IF a.num = 0 THEN NaN
               ELSE [nan |-> FALSE, num |-> IF a.num > 0 THEN 1 ELSE -1, den |-> 0])
         ELSE IF b.num < 0 THEN FMul(a, Frac(-b.den, -b.num))
              ELSE FMul(a, Frac(b.den, b.num))

\* a / b > c / d for a, c >= 0 and b, d > 0, without a product
RECURSIVE GreaterRatio(_, _, _, _)
GreaterRatio(a, b, c, d) ==
    LET qa == a \div b
        qc == c \div d
        ra == a % b
        rc == c % d
    IN  IF qa # qc THEN qa > qc
        ELSE IF ra = 0 THEN FALSE
        ELSE IF rc = 0 THEN TRUE
        ELSE GreaterRatio(d, rc, b, ra)

\* the two-sided 5% critical values of Student's t, in thousandths, by the
\* degrees of freedom: p < 0.05 exactly when |t| is above them
TCritMilli ==
    <<12706, 4303, 3182, 2776, 2571, 2447, 2365, 2306, 2262, 2228,
      2201, 2179, 2160, 2145, 2131, 2120, 2110, 2101, 2093, 2086,
      2080, 2074, 2069, 2064, 2060, 2056, 2052, 2048, 2045, 2042>>

\* A p-value is kept as the statistic that decides it: t squared and the
\* degrees of freedom, or NaN.
PNaN == [nan |-> TRUE, t2 |-> NaN, df |-> 0]

PValue(t2, df) == IF t2.nan \/ df < 1 THEN PNaN ELSE [nan |-> FALSE, t2 |-> t2, df |-> df]

\* BelowAlpha with a NaN p-value counted as below alpha
BelowAlpha_nan(p) ==
    \/ p.nan
    \/ p.t2.den = 0
    \/ GreaterRatio(p.t2.num, p.t2.den,
                    TCritMilli[p.df] * TCritMilli[p.df], 1000000)

\* p_value < alpha, alpha = 0.05; false for a NaN p-value
BelowAlpha(p) ==
    /\ ~p.nan
    /\ \/ p.t2.den = 0
       \/ GreaterRatio(p.t2.num, p.t2.den,
                       TCritMilli[p.df] * TCritMilli[p.df], 1000000)

\* stats.ttest_ind_from_stats(mean1, std1, nobs1, mean2, std2, nobs2)[1]
ttest_ind_from_stats(mean1, var1, nobs1, mean2, var2, nobs2) ==
    LET df == nobs1 + nobs2 - 2
        svar == FDiv(FAdd(FMul(FInt(nobs1 - 1), var1), FMul(FInt(nobs2 - 1), var2)),
                     FInt(df))
        denom2 == FMul(svar, Frac(nobs1 + nobs2, nobs1 * nobs2))
        dm == FSub(mean1, mean2)
    IN  PValue(FDiv(FMul(dm, dm), denom2), df)

\* stats.ttest_1samp(a, popmean)[1], a the list of values
ttest_1samp(a, popmean) ==
    IF Len(a) = 0 THEN PNaN
    ELSE LET dm == FSub(FMean(a), popmean)
         IN  PValue(FDiv(FMul(FMul(dm, dm), FInt(Len(a))), FVar(a)), Len(a) - 1)

(***************************************************************************)
(* create_rank_calc, test_int_bm and test_best_practice                    *)
(***************************************************************************)
\* the values of a metric over a set of rows, as a list
RECURSIVE ValuesOf(_, _)
ValuesOf(R, each_metric) ==
    IF R = {} THEN <<>>
    ELSE LET x == CHOOSE x \in R : TRUE
         IN  <<FInt(x.val[each_metric])>> \o ValuesOf(R \ {x}, each_metric)

\* vi.create_rank_calc(data, metric, hrvar, stats = True): one row per
\* grouping attribute and group, with the mean, the standard deviation (kept
\* squared) and the number of unique persons
create_rank_calc(d, each_metric, hs) ==
    UNION { { LET rows == {rw \in d : rw.hr[hs[i]] = g}
                  vs == ValuesOf(rows, each_metric)
              IN  [attribute |-> hs[i],
                   group |-> g,
                   metric_name |-> each_metric,
                   metric |-> FMean(vs),
                   sd_sq |-> FVar(vs),
                   n |-> Cardinality({rw.PersonId : rw \in rows})]
              : g \in {rw.hr[hs[i]] : rw \in d} } : i \in DOMAIN hs }

\* the filter by minimum group size of test_int_bm
KeepGroup_int_bm(row, mg) == row.n >= mg

\* one data frame of test_int_bm
IntBmFrame(d, each_metric, hs, mg) ==
    LET bm_data == {x \in create_rank_calc(d, each_metric, hs) : KeepGroup_int_bm(x, mg)}
        all == ValuesOf(d, each_metric)
        pop_mean == FMean(all)
        pop_var == FVar(all)
        pop_n == Cardinality({rw.PersonId : rw \in d})
    IN  { LET p == ttest_ind_from_stats(x.metric, x.sd_sq, x.n, pop_mean, pop_var, pop_n)
          IN  [attribute |-> x.attribute, group |-> x.group,
               metric_name |-> x.metric_name, metric |-> x.metric,
               sd_sq |-> x.sd_sq, n |-> x.n,
               pop_mean |-> pop_mean, pop_std_sq |-> pop_var, pop_n |-> pop_n,
               p_value |-> p,
               is_significant |-> BelowAlpha(p),
               test_type |-> "Two-sample t-test"] : x \in bm_data }

test_int_bm(d, ms, hs, mg) == [i \in 1..Len(ms) |-> IntBmFrame(d, ms[i], hs, mg)]

BP_MIN_GROUP == 5

\* the filter by minimum group size of test_best_practice
KeepGroup_bp(row, mg) == row.n >= BP_MIN_GROUP

\* the values of a column of a frame, as a list
RECURSIVE MetricColumn(_)
MetricColumn(frame) ==
    IF frame = {} THEN <<>>
    ELSE LET x == CHOOSE x \in frame : TRUE
         IN  <<x.metric>> \o MetricColumn(frame \ {x})

\* the p-value test_best_practice gives the row x of bm_data
BpPValue(bm_data, x, bm_mean) == ttest_1samp(MetricColumn(bm_data), bm_mean)

\* one data frame of test_best_practice
BpFrame(d, each_metric, hs, mg, bp) ==
    LET bm_data == {x \in create_rank_calc(d, each_metric, hs) : KeepGroup_bp(x, mg)}
        bm_mean == FInt(bp[each_metric])
    IN  { LET p == BpPValue(bm_data, x, bm_mean)
          IN  [attribute |-> x.attribute, group |-> x.group,
               metric_name |-> x.metric_name, metric |-> x.metric,
               sd_sq |-> x.sd_sq, n |-> x.n,
               benchmark_mean |-> bm_mean,
               p_value |-> p,
               is_significant |-> BelowAlpha(p),
               test_type |-> "One-sample t-test"] : x \in bm_data }

\* bp[each_metric] raises KeyError
BpKeyError(ms, bp) == \E i \in DOMAIN ms : ms[i] \notin DOMAIN bp

\* test_best_practice, when no lookup raises
test_best_practice(d, ms, hs, mg, bp) ==
    [i \in 1..Len(ms) |-> BpFrame(d, ms[i], hs, mg, bp)]

(***************************************************************************)
(* xicor: Chatterjee's rank correlation                                    *)
(***************************************************************************)
\* a / b in floating point, kept exact: 0/0 is NaN, x/0 an infinity
IntDiv(a, b) ==
    IF b = 0 THEN (IF a = 0 THEN NaN
                   ELSE [nan |-> FALSE, num |-> IF a > 0 THEN 1 ELSE -1, den |-> 0])
    ELSE IF b < 0 THEN Frac(-a, -b) ELSE Frac(a, b)

\* insertion of index i into the sorted index list s: behind every index whose
\* key is not greater.  numpy sorts a short array by insertion.
InsertIndex(s, i, keys) ==
    LET c == Cardinality({j \in 1..Len(s) : keys[s[j]] <= keys[i]})
    IN  SubSeq(s, 1, c) \o <<i>> \o SubSeq(s, c + 1, Len(s))

RECURSIVE ArgSortUpTo(_, _)
ArgSortUpTo(keys, k) ==
    IF k = 0 THEN <<>> ELSE InsertIndex(ArgSortUpTo(keys, k - 1), k, keys)

\* np.argsort(X)
argsort(keys) == ArgSortUpTo(keys, Len(keys))

\* OrderBy with Y indexed by the values of X (wrapping), not by argsort(X)
OrderBy_values(ys, xs) ==
    [i \in 1..Len(xs) |-> ys[((xs[i] - 1) % Len(ys)) + 1]]

\* np.array(Y)[np.argsort(X)]
OrderBy(ys, xs) == [i \in 1..Len(xs) |-> ys[argsort(xs)[i]]]

\* scipy.stats.rankdata(a, method)
rankdata(a, method) ==
    [i \in 1..Len(a) |->
        IF method = "max"
        THEN Cardinality({j \in 1..Len(a) : a[j] <= a[i]})
        ELSE Cardinality({j \in 1..Len(a) : a[j] < a[i]})
             + Cardinality({j \in 1..i : a[j] = a[i]})]

RECURSIVE SumSeq(_)
SumSeq(s) == IF s = <<>> THEN 0 ELSE Head(s) + SumSeq(Tail(s))

\* np.sum(np.abs(np.diff(r)))
SumAbsDiff(ranks) ==
    SumSeq([i \in 1..(IF Len(ranks) = 0 THEN 0 ELSE Len(ranks) - 1) |->
               Abs(ranks[i + 1] - ranks[i])])

\* XiFormula with n * 2 - 1 where the code has n ** 2 - 1
XiFormula_twice(n, ranks, tie, oy) ==
    IF tie
    THEN LET l == rankdata(oy, "max")
         IN  FSub(FInt(1),
                  IntDiv(n * SumAbsDiff(ranks),
                         2 * SumSeq([i \in 1..Len(l) |-> l[i] * (n - l[i])])))
    ELSE FSub(FInt(1), IntDiv(3 * SumAbsDiff(ranks), n * 2 - 1))

\* the value xicor returns, from the ranks
XiFormula(n, ranks, tie, oy) ==
    IF tie
    THEN LET l == rankdata(oy, "max")
         IN  FSub(FInt(1),
                  IntDiv(n * SumAbsDiff(ranks),
                         2 * SumSeq([i \in 1..Len(l) |-> l[i] * (n - l[i])])))
    ELSE FSub(FInt(1), IntDiv(3 * SumAbsDiff(ranks), n * n - 1))

XiIdle ==
    /\ X = <<>> /\ Y = <<>> /\ ties = FALSE /\ xpc = "idle"
    /\ ordered_Y = <<>> /\ r = <<>> /\ xi = NaN /\ xlog = {}
    /\ call = 0 /\ xi_first = NaN

ChirpsIdle ==
    /\ data = {} /\ metrics = <<>> /\ hrvar = <<>> /\ min_group = 0
    /\ pc = "idle" /\ list_ts = <<>> /\ list_person = <<>>
    /\ list_int_bm = <<>> /\ list_bp = <<>> /\ combined_list = <<>>

MaxLen == 3

XVals == {1, 2, 3}

RECURSIVE SeqsOf(_, _)
SeqsOf(S, k) ==
    IF k = 0 THEN {<<>>}
    ELSE {Append(q, v) : q \in SeqsOf(S, k - 1), v \in S}

XiInputs == UNION {SeqsOf(XVals, k) : k \in 0..MaxLen}

\* the strictly increasing maps applied to X
Transforms ==
    {f \in [XVals -> 1..(Cardinality(XVals) + 1)] :
        \A a, b \in XVals : a < b => f[a] < f[b]}

InitXi ==
    /\ ChirpsIdle
    /\ X \in XiInputs /\ Y \in XiInputs /\ ties \in BOOLEAN
    /\ xpc = "called"
    /\ ordered_Y = <<>> /\ r = <<>> /\ xi = NaN /\ xlog = {}
    /\ call = 1 /\ xi_first = NaN

\* XiCheckLen raising only when X is the longer of the two
XiCheckLen_longer ==
    /\ xpc = "called"
    /\ xpc' = IF Len(X) > Len(Y) THEN "raised" ELSE "sort"
    /\ UNCHANGED <<X, Y, ties, ordered_Y, r, xi, xlog, call, xi_first>>
    /\ UNCHANGED cvars

\* n = len(X); if n != len(Y): raise ValueError
XiCheckLen ==
    /\ xpc = "called"
    /\ xpc' = IF Len(X) # Len(Y) THEN "raised" ELSE "sort"
    /\ UNCHANGED <<X, Y, ties, ordered_Y, r, xi, xlog, call, xi_first>>
    /\ UNCHANGED cvars

XiSort ==
    /\ xpc = "sort"
    /\ ordered_Y' = OrderBy(Y, X)
    /\ xlog' = xlog \cup {"argsort"}
    /\ xpc' = "rank"
    /\ UNCHANGED <<X, Y, ties, r, xi, call, xi_first>>
    /\ UNCHANGED cvars

XiRank ==
    /\ xpc = "rank"
    /\ r' = rankdata(ordered_Y, IF ties THEN "max" ELSE "ordinal")
    /\ xlog' = xlog \cup {"rankdata"}
    /\ xpc' = "formula"
    /\ UNCHANGED <<X, Y, ties, ordered_Y, xi, call, xi_first>>
    /\ UNCHANGED cvars

XiReturn ==
    /\ xpc = "formula"
    /\ xi' = XiFormula(Len(X), r, ties, ordered_Y)
    /\ xpc' = "done"
    /\ UNCHANGED <<X, Y, ties, ordered_Y, r, xlog, call, xi_first>>
    /\ UNCHANGED cvars

\* the caller applies a strictly increasing map to X and calls xicor again
XiTransform ==
    /\ xpc = "done" /\ call = 1
    /\ \E f \in Transforms : X' = [i \in 1..Len(X) |-> f[X[i]]]
    /\ xi_first' = xi
    /\ call' = 2
    /\ xpc' = "called"
    /\ ordered_Y' = <<>> /\ r' = <<>> /\ xi' = NaN /\ xlog' = {}
    /\ UNCHANGED <<Y, ties>>
    /\ UNCHANGED cvars

NextXi == XiCheckLen \/ XiSort \/ XiRank \/ XiReturn \/ XiTransform

SpecXi == InitXi /\ [][NextXi]_vars

(***************************************************************************)
(* The person queries the checks run on                                    *)
(***************************************************************************)
AllMetrics == {"Email_hours", "Emails_sent", "Total_focus_hours"}

PersonKey(g, i) == <<g, i>>

\* person i of organization g, on one date, every metric column holding v
MkRow(g, i, date, v) ==
    [PersonId |-> PersonKey(g, i),
     MetricDate |-> date,
     hr |-> [Organization |-> g,
             SupervisorIndicator |-> IF i = 1 THEN "Manager" ELSE "IC"],
     val |-> [m \in AllMetrics |-> v]]

MaxDates == 5

\* what one week of the trend inputs can hold: <<organization, person, value>>
WeekPatterns ==
    { {<<"A", 1, 0>>, <<"B", 1, 1>>},
      {<<"A", 1, 1>>, <<"A", 2, 1>>, <<"B", 1, 1>>},
      {<<"A", 1, 2>>, <<"B", 1, 1>>},
      {<<"A", 1, 0>>, <<"A", 2, 2>>} }

\* organization B reports in this week
HasB(week) == \E e \in week : e[1] = "B"

TableOf(ws) ==
    UNION { {MkRow(e[1], e[2], date, e[3]) : e \in ws[date]} : date \in DOMAIN ws }

\* the weeks of a trend input: B misses one week at most
TrendWeeks ==
    {ws \in [1..MaxDates -> WeekPatterns] :
        \A d1, d2 \in 1..MaxDates : (~HasB(ws[d1]) /\ ~HasB(ws[d2])) => d1 = d2}

TrendTables == {TableOf(ws) : ws \in TrendWeeks}

\* The end-to-end scenario, in quarter units: two persons in each of two
\* organizations every week; A rises strictly from 2 to 10, by a half or by
\* three quarters a week, and B stays at 5.
E2EWeeks == 16
RiseFrom == 2 * 4
RiseTo == 10 * 4
FlatAt == 5 * 4

RisingSeries ==
    LET extra == (RiseTo - RiseFrom) - 2 * (E2EWeeks - 1)
        Big == {P \in SUBSET (1..(E2EWeeks - 1)) : Cardinality(P) = extra}
    IN  { [w \in 1..E2EWeeks |->
              RiseFrom + 2 * (w - 1) + Cardinality({q \in P : q < w})] : P \in Big }

E2ETable(a) ==
    UNION { {MkRow("A", 1, w, a[w]), MkRow("A", 2, w, a[w]),
             MkRow("B", 1, w, FlatAt), MkRow("B", 2, w, FlatAt)} : w \in DOMAIN a }

E2ETables == {E2ETable(a) : a \in RisingSeries}

(***************************************************************************)
(* The trend tests called on their own                                     *)
(***************************************************************************)
InitTs ==
    /\ data \in TrendTables \cup E2ETables
    /\ metrics \in {<<"Emails_sent">>, <<"Total_focus_hours">>}
    /\ hrvar = <<"Organization">>
    /\ min_group \in {1, 2}
    /\ pc = "ts_ready"
    /\ list_ts = <<>>
    /\ list_person = <<>>
    /\ list_int_bm = <<>>
    /\ list_bp = <<>>
    /\ combined_list = <<>>
    /\ XiIdle

CallTestTs ==
    /\ pc = "ts_ready"
    /\ list_ts' = test_ts(data, metrics, hrvar, min_group)
    /\ pc' = "ts_done"
    /\ UNCHANGED <<data, metrics, hrvar, min_group, list_person, list_int_bm,
                   list_bp, combined_list>>
    /\ UNCHANGED xvars

CallTestTsPerson ==
    /\ pc = "ts_done"
    /\ list_person' = test_ts_person(data, metrics)
    /\ pc' = "person_done"
    /\ UNCHANGED <<data, metrics, hrvar, min_group, list_ts, list_int_bm,
                   list_bp, combined_list>>
    /\ UNCHANGED xvars

NextTs == CallTestTs \/ CallTestTsPerson

SpecTs == InitTs /\ [][NextTs]_vars

(***************************************************************************)
(* create_chirps                                                           *)
(***************************************************************************)
MaxPersons == 6

GroupSizes == (MaxPersons - 2)..MaxPersons

ChirpVals == {8, 10, 12}

\* nA persons in A with value a1 in week 1 and a2 in week 2, nB persons in B
\* with value b in both weeks
ChirpsTable(nA, nB, a1, a2, b) ==
    {MkRow("A", i, 1, a1) : i \in 1..nA} \cup {MkRow("A", i, 2, a2) : i \in 1..nA}
    \cup {MkRow("B", i, 1, b) : i \in 1..nB} \cup {MkRow("B", i, 2, b) : i \in 1..nB}

ChirpsTables ==
    {ChirpsTable(nA, nB, a1, a2, b) :
        nA \in GroupSizes, nB \in GroupSizes,
        a1 \in ChirpVals, a2 \in ChirpVals, b \in ChirpVals}

\* the thresholds create_chirps hands to test_best_practice
chirps_bp == [m \in {"Email_hours"} |-> 10]

Init ==
    /\ data \in ChirpsTables
    /\ metrics \in {<<"Email_hours">>, <<"Emails_sent">>,
                     <<"Email_hours", "Total_focus_hours">>}
    /\ hrvar \in {<<"Organization">>, <<"Organization", "SupervisorIndicator">>}
    /\ min_group \in {1, BP_MIN_GROUP, MaxPersons}
    /\ pc = "chirps_called"
    /\ list_ts = <<>>
    /\ list_person = <<>>
    /\ list_int_bm = <<>>
    /\ list_bp = <<>>
    /\ combined_list = <<>>
    /\ XiIdle

\* list_ts = test_ts(data, metrics, hrvar, min_group)
ChirpsTs ==
    /\ pc = "chirps_called"
    /\ list_ts' = test_ts(data, metrics, hrvar, min_group)
    /\ pc' = "int_bm"
    /\ UNCHANGED <<data, metrics, hrvar, min_group, list_person, list_int_bm,
                   list_bp, combined_list>>
    /\ UNCHANGED xvars

\* list_int_bm = test_int_bm(data, metrics, hrvar, min_group)
ChirpsIntBm ==
    /\ pc = "int_bm"
    /\ list_int_bm' = test_int_bm(data, metrics, hrvar, min_group)
    /\ pc' = "bp"
    /\ UNCHANGED <<data, metrics, hrvar, min_group, list_ts, list_person,
                   list_bp, combined_list>>
    /\ UNCHANGED xvars

\* list_bp = test_best_practice(data, metrics, hrvar, bp = {'Email_hours': 10})
ChirpsBp ==
    /\ pc = "bp"
    /\ IF BpKeyError(metrics, chirps_bp)
       THEN pc' = "raised" /\ list_bp' = list_bp
       ELSE /\ pc' = "return"
            /\ list_bp' = test_best_practice(data, metrics, hrvar, min_group, chirps_bp)
    /\ UNCHANGED <<data, metrics, hrvar, min_group, list_ts, list_person,
                   list_int_bm, combined_list>>
    /\ UNCHANGED xvars

\* combined_list = list_ts + list_int_bm; return combined_list
ChirpsReturn ==
    /\ pc = "return"
    /\ combined_list' = list_ts \o list_int_bm
    /\ pc' = "returned"
    /\ UNCHANGED <<data, metrics, hrvar, min_group, list_ts, list_person,
                   list_int_bm, list_bp>>
    /\ UNCHANGED xvars

Next == ChirpsTs \/ ChirpsIntBm \/ ChirpsBp \/ ChirpsReturn

Spec == Init /\ [][Next]_vars

(***************************************************************************)
(* Crossovers, stated on the full series (min_group = 1 keeps every cell)  *)
(***************************************************************************)
TsDone == pc \in {"ts_done", "person_done"}

\* the rows of the same group or person on earlier dates
Earlier(frame, row, key(_)) ==
    {x \in frame : key(x) = key(row) /\ x.MetricDate < row.MetricDate}

\* the MAs stood this way on the preceding date of the row's group or person
PrevHolds(frame, row, key(_), Cmp(_, _)) ==
    \E x \in Earlier(frame, row, key) :
        /\ \A y \in Earlier(frame, row, key) : y.MetricDate <= x.MetricDate
        /\ Cmp(x.MA4, x.MA12)

UpCross(frame, row, key(_)) ==
    FGt(row.MA4, row.MA12) /\ PrevHolds(frame, row, key, FLeq)

DownCross(frame, row, key(_)) ==
    FLess(row.MA4, row.MA12) /\ PrevHolds(frame, row, key, FGeq)

GroupKey(row) == row.group
PersonIdKey(row) == row.PersonId

\* the frame of test_ts with no cell suppressed: the frame test_ts returned
\* when it was called with min_group = 1
FullFrame(i) ==
    IF min_group = 1 /\ i \in DOMAIN list_ts
    THEN list_ts[i]
    ELSE TrendFrame(data, hrvar[((i - 1) \div Len(metrics)) + 1],
                    metrics[((i - 1) % Len(metrics)) + 1], 1)

\* C2: in test_ts, for a non-exception metric, the flip flag of a row is true
\* iff its 4MA is above its 12MA now and the group's 4MA on the preceding date
\* was at or below the 12MA of that preceding date.
C2_FlipIffCrossover ==
    TsDone =>
        \A i \in DOMAIN list_ts :
            LET full == FullFrame(i)
            IN  \A row \in list_ts[i] :
                    row.metric_name \notin exception_metrics
                        => (row.Flipped <=> UpCross(full, row, GroupKey))

DirectionOk(row, up, down) ==
    IF row.metric_name \in exception_metrics
    THEN (down => row.Flipped) /\ (up => ~row.Flipped)
    ELSE (up => row.Flipped) /\ (down => ~row.Flipped)

\* C3, test_ts_person's half: a person's downward crossover sets the flag for
\* an exception metric and an upward one clears it, and the reverse for the
\* other metrics.
C3_PersonDirection ==
    pc = "person_done" =>
        \A i \in DOMAIN list_person :
            \A row \in list_person[i] :
                DirectionOk(row, UpCross(list_person[i], row, PersonIdKey),
                            DownCross(list_person[i], row, PersonIdKey))

\* C3, test_ts's half.
C3_GroupDirection ==
    TsDone =>
        \A i \in DOMAIN list_ts :
            LET full == FullFrame(i)
            IN  \A row \in list_ts[i] :
                    DirectionOk(row, UpCross(full, row, GroupKey),
                                DownCross(full, row, GroupKey))

\* C3: in test_ts and in test_ts_person alike, for an exception metric a
\* downward crossover of the 4MA through the 12MA sets the flip flag and an
\* upward one leaves it false; for every other metric it is the reverse.
C3_CrossoverDirection == C3_GroupDirection /\ C3_PersonDirection

\* a group whose metric is the same on every one of its dates
ConstantGroup(frame, g) ==
    \A x, y \in {rw \in frame : rw.group = g} : x.value = y.value

IsE2E == Cardinality({rw.MetricDate : rw \in data}) = E2EWeeks

\* C4: on the sixteen-week scenario (A rising from 2 to 10, B flat at 5, both
\* at or above min_group, a non-exception metric) some row of A has the flip
\* flag and no row of B has it; and on any input a group whose metric is
\* constant never has the flag.
C4_RisingFlipsFlatDoesNot ==
    TsDone =>
        /\ (IsE2E /\ metrics[1] \notin exception_metrics)
              => /\ \E row \in list_ts[1] : row.group = "A" /\ row.Flipped
                 /\ \A row \in list_ts[1] : row.group = "B" => ~row.Flipped
        /\ \A i \in DOMAIN list_ts :
              LET full == FullFrame(i)
                  flat == {g \in {rw.group : rw \in full} : ConstantGroup(full, g)}
              IN  \A row \in list_ts[i] : row.group \in flat => ~row.Flipped

C4_Witness ==
    /\ TsDone
    /\ IsE2E
    /\ metrics[1] \notin exception_metrics
    /\ \E row \in list_ts[1] : row.group = "A" /\ row.Flipped /\ row.n >= min_group
    /\ \E row \in list_ts[1] : row.group = "B" /\ ~row.Flipped /\ row.MetricDate = E2EWeeks

(***************************************************************************)
(* xicor                                                                   *)
(***************************************************************************)
\* C5: xicor raises ValueError exactly when the lengths differ, for either
\* value of ties, and raises it before anything is sorted or ranked.
C5_RaisesIffLengthsDiffer ==
    /\ xpc = "raised" => (Len(X) # Len(Y) /\ xlog = {} /\ ordered_Y = <<>> /\ r = <<>>)
    /\ (xpc \notin {"idle", "called"} /\ Len(X) # Len(Y)) => xpc = "raised"
    /\ "argsort" \in xlog => Len(X) = Len(Y)

C5_Witness ==
    /\ xpc = "raised" /\ ties /\ Len(X) = 3 /\ Len(Y) = 2

\* no ties, and Y a strictly increasing function of X
StrictlyIncreasingIn(xs, ys) ==
    /\ Len(xs) = Len(ys)
    /\ \A i, j \in 1..Len(xs) : i # j => xs[i] # xs[j]
    /\ \A i, j \in 1..Len(xs) : xs[i] < xs[j] <=> ys[i] < ys[j]

IsOne(v) == ~v.nan /\ v.num = v.den

\* C6 as claimed: with no ties and Y strictly increasing in X, xicor(X, Y,
\* ties = False) returns exactly 1.0 for every n >= 2.
C6_MonotoneGivesOne ==
    (xpc = "done" /\ ~ties /\ Len(X) >= 2 /\ StrictlyIncreasingIn(X, Y))
        => IsOne(xi)

\* C6 as amended: under the same conditions xicor returns (n - 2) / (n + 1),
\* which is below 1 for every n.
C6_MonotoneGivesNMinus2OverNPlus1 ==
    (xpc = "done" /\ ~ties /\ Len(X) >= 2 /\ StrictlyIncreasingIn(X, Y))
        => (xi = Frac(Len(X) - 2, Len(X) + 1) /\ FLess(xi, FInt(1)))

C6_Witness ==
    /\ xpc = "done" /\ ~ties /\ Len(X) = 3 /\ StrictlyIncreasingIn(X, Y)
    /\ xi = Frac(1, 4)

\* C7: xicor(f(X), Y, ties) = xicor(X, Y, ties) for every strictly increasing
\* f and either value of ties (a NaN result stays a NaN result).
C7_InvariantUnderMonotoneTransform ==
    (xpc = "done" /\ call = 2) => xi = xi_first

C7_Witness ==
    /\ xpc = "done" /\ call = 2 /\ ties /\ Len(X) = 3
    /\ \E i, j \in 1..Len(X) : i # j /\ X[i] = X[j]
    /\ X[1] > Cardinality(XVals)
    /\ ~xi.nan /\ xi = xi_first

(***************************************************************************)
(* create_chirps and the benchmark tests                                   *)
(***************************************************************************)
RowsOf(frames) == UNION {frames[i] : i \in DOMAIN frames}

\* C1: no row with n below min_group is in the frames of test_ts, of
\* test_int_bm or of test_best_practice as create_chirps runs them, nor in
\* the list create_chirps returns.
C1_NoGroupBelowMinGroup ==
    \A row \in RowsOf(list_ts) \cup RowsOf(list_int_bm) \cup RowsOf(list_bp)
                \cup RowsOf(combined_list) : row.n >= min_group

\* the same query with the metric of one organization's persons moved by delta
ShiftGroup(d, g, delta) ==
    {IF rw.hr["Organization"] = g
     THEN [rw EXCEPT !.val = [m \in DOMAIN rw.val |-> rw.val[m] + delta]]
     ELSE rw : rw \in d}

BpReached == pc \in {"return", "returned"}

\* C8: in test_best_practice a group's p_value and is_significant depend on
\* that group's own values and the threshold only: moving the values of
\* another organization leaves the row of this organization as it was.
C8_GroupTestedOnItsOwn ==
    (BpReached /\ hrvar = <<"Organization">>) =>
        \A i \in DOMAIN list_bp : \A row \in list_bp[i] :
            \A g \in {"A", "B"} \ {row.group} : \A delta \in {-2, 2} :
                LET other == BpFrame(ShiftGroup(data, g, delta), metrics[i], hrvar,
                                     min_group, chirps_bp)
                IN  \A row2 \in other :
                        row2.group = row.group
                            => /\ row2.p_value = row.p_value
                               /\ row2.is_significant = row.is_significant

\* C9: a requested metric without a threshold yields no best-practice rows and
\* create_chirps still completes: it never fails on the lookup, and every
\* call reaches its return.
C9_MissingThresholdIsSkipped ==
    /\ pc # "raised"
    /\ pc = "returned" =>
          \A row \in RowsOf(list_bp) : row.metric_name \in DOMAIN chirps_bp

\* C10: what create_chirps returns holds the rows of all three tests.
C10_ReturnsAllThreeTests ==
    pc = "returned" =>
        (RowsOf(list_ts) \cup RowsOf(list_int_bm) \cup RowsOf(list_bp))
            \subseteq RowsOf(combined_list)

(***************************************************************************)
(* The internal benchmark on degenerate input                              *)
(***************************************************************************)
IntBmReached == pc \in {"bp", "raised", "return", "returned"}

\* every value of the metric in the query is the same
AllSame(each_metric) == Cardinality({rw.val[each_metric] : rw \in data}) = 1

IsZero(v) == ~v.nan /\ v.num = 0 /\ v.den # 0

\* the groups of a grouping attribute with at least min_group persons
GroupsKept(each_hrvar) ==
    {g \in {rw.hr[each_hrvar] : rw \in data} :
        Cardinality({rw.PersonId : rw \in {x \in data : x.hr[each_hrvar] = g}})
            >= min_group}

\* C11: test_int_bm completes on degenerate input and reports it as not
\* significant: a significant row has a defined p-value; a row with zero
\* variance in the group and in the population and equal means is not
\* significant; and when every value of the metric is the same, each group of
\* at least min_group persons has its row, with is_significant false.
C11_DegenerateIsNotSignificant ==
    IntBmReached =>
        /\ Len(list_int_bm) = Len(metrics)
        /\ \A i \in DOMAIN list_int_bm :
              /\ \A row \in list_int_bm[i] :
                    /\ row.is_significant => ~row.p_value.nan
                    /\ (IsZero(row.sd_sq) /\ IsZero(row.pop_std_sq)
                            /\ row.metric = row.pop_mean) => ~row.is_significant
              /\ AllSame(metrics[i]) =>
                    \A h \in DOMAIN hrvar : \A g \in GroupsKept(hrvar[h]) :
                        \E row \in list_int_bm[i] :
                            /\ row.attribute = hrvar[h]
                            /\ row.group = g
                            /\ ~row.is_significant

C11_Witness ==
    /\ IntBmReached
    /\ AllSame(metrics[1])
    /\ \E row \in list_int_bm[1] :
          /\ IsZero(row.sd_sq) /\ IsZero(row.pop_std_sq)
          /\ row.metric = row.pop_mean
          /\ row.p_value.nan
          /\ ~row.is_significant

(***************************************************************************)
(* The Interest_Score of the result                                        *)
(***************************************************************************)
\* C12: every row of what create_chirps returns carries an Interest_Score,
\* a number in [0,1].
C12_RowsCarryInterestScore ==
    pc = "returned" =>
        \A row \in RowsOf(combined_list) :
            /\ "Interest_Score" \in DOMAIN row
            /\ FLeq(FInt(0), row["Interest_Score"])
            /\ FLeq(row["Interest_Score"], FInt(1))

(***************************************************************************)
(* Suppression, ranks and the first dates of a group in test_ts            *)
(***************************************************************************)
\* test_ts has just returned list_ts
TsReturned == pc = "ts_done"

\* C13: in test_ts the filter by min_group comes after every rolling column:
\* each frame is the frame computed with min_group = 1 less its rows with
\* n < min_group, so a kept row has the MAs, the all-time average, the lagged
\* 4MA, the flip flag, the stdev, the rank and the average ranks of the full
\* series.
C13_SuppressionIsAReportingFilter ==
    TsReturned =>
        \A i \in DOMAIN list_ts :
            list_ts[i] = {row \in FullFrame(i) : row.n >= min_group}

\* a kept row whose window holds a suppressed cell of its own group and whose
\* date holds a suppressed cell of another group
C13_Witness ==
    /\ TsReturned
    /\ min_group > 1
    /\ \E row \in list_ts[1] :
          /\ \E x \in Earlier(FullFrame(1), row, GroupKey) : x.n < min_group
          /\ \E y \in FullFrame(1) :
                /\ y.MetricDate = row.MetricDate
                /\ y.group # row.group
                /\ y.n < min_group
                /\ row.Rank # FInt(1)

\* the number of groups present on the row's date that the order puts first
Ahead(frame, row, Before(_, _)) ==
    Cardinality({x \in frame : x.MetricDate = row.MetricDate
                                  /\ Before(x.value, row.value)})

\* C14: in test_ts the rank of a row is taken among all groups present on
\* its date, lowest value first for a metric of the exception list and
\* highest value first for every other metric: a group with a better value
\* has a smaller rank, and a group with no group ahead of it and no tie has
\* rank 1.
C14_RankDirection ==
    TsReturned =>
        \A i \in DOMAIN list_ts :
            LET full == FullFrame(i)
            IN  \A row \in list_ts[i] :
                    LET low == row.metric_name \in exception_metrics
                        ahead == IF low THEN Ahead(full, row, FLess)
                                 ELSE Ahead(full, row, FGt)
                        level == Cardinality({x \in full :
                                     x.MetricDate = row.MetricDate
                                     /\ x.value = row.value})
                    IN  /\ FLess(FInt(ahead), row.Rank)
                        /\ FLeq(row.Rank, FInt(ahead + level))
                        /\ (ahead = 0 /\ level = 1) => row.Rank = FInt(1)
                        /\ \A x \in full :
                              (x.MetricDate = row.MetricDate
                               /\ (IF low THEN FLess(x.value, row.value)
                                   ELSE FGt(x.value, row.value)))
                                  => FLess(x.Rank, row.Rank)

\* on one date the group with the lower value has rank 1 for an exception
\* metric, and rank 2 for another metric
C14_Witness ==
    /\ TsReturned
    /\ \E row \in list_ts[1] : \E x \in FullFrame(1) :
          /\ x.MetricDate = row.MetricDate
          /\ FLess(row.value, x.value)
          /\ \/ row.metric_name \in exception_metrics /\ row.Rank = FInt(1)
                                                       /\ x.Rank = FInt(2)
             \/ row.metric_name \notin exception_metrics /\ row.Rank = FInt(2)
                                                          /\ x.Rank = FInt(1)
          /\ row.metric_name = "Total_focus_hours"

\* the number of dates of the row's group before the row's date
History(frame, row) == Cardinality(Earlier(frame, row, GroupKey))

\* C15: in test_ts the flip flag is false on each of a group's first four
\* dates, whatever the metric: there the 4MA and the 12MA are the same
\* expanding mean, and on the first date the lagged 4MA is undefined.
C15_NoFlipOnFirstFourDates ==
    TsReturned =>
        \A i \in DOMAIN list_ts :
            LET full == FullFrame(i)
            IN  \A row \in full \cup list_ts[i] :
                    /\ History(full, row) < short_period =>
                          /\ ~row.Flipped
                          /\ row.MA4 = row.MA12
                    /\ History(full, row) = 0 => row.Last_Week_4MA.nan

\* a flip reported on a group's fifth date
C15_Witness ==
    /\ TsReturned
    /\ \E row \in list_ts[1] :
          /\ History(FullFrame(1), row) = short_period
          /\ row.Flipped
    /\ \E row \in list_ts[1] :
          /\ History(FullFrame(1), row) = short_period - 1
          /\ ~row.Flipped
          /\ row.value # row.MA4

====
